---------------------------- MODULE Spec2Model ----------------------------
(***************************************************************************)
(* A model of the cruid crate: the CRUID text codec (src/src/cruid.rs),    *)
(* the AES-128 cipher wrapper (src/src/encryption.rs) and the error type   *)
(* (src/src/error.rs).                                                     *)
(*                                                                         *)
(* Bytes are the integers 0..255.  A byte string is a sequence of bytes,   *)
(* indexed from 1, so offset k of the Rust code is index k + 1 here.       *)
(* A u64 is kept as four 16-bit limbs, most significant first, because the *)
(* model checker's integers are narrower than 64 bits.                     *)
(***************************************************************************)
EXTENDS Integers, Sequences, FiniteSets, TLC

Byte == 0..255

(***************************************************************************)
(* Bit operations on bytes.                                                *)
(***************************************************************************)
\* Exclusive or of two 4-bit values, as a table.
XOR4 ==
  << <<  0,  1,  2,  3,  4,  5,  6,  7,  8,  9, 10, 11, 12, 13, 14, 15 >>,
     <<  1,  0,  3,  2,  5,  4,  7,  6,  9,  8, 11, 10, 13, 12, 15, 14 >>,
     <<  2,  3,  0,  1,  6,  7,  4,  5, 10, 11,  8,  9, 14, 15, 12, 13 >>,
     <<  3,  2,  1,  0,  7,  6,  5,  4, 11, 10,  9,  8, 15, 14, 13, 12 >>,
     <<  4,  5,  6,  7,  0,  1,  2,  3, 12, 13, 14, 15,  8,  9, 10, 11 >>,
     <<  5,  4,  7,  6,  1,  0,  3,  2, 13, 12, 15, 14,  9,  8, 11, 10 >>,
     <<  6,  7,  4,  5,  2,  3,  0,  1, 14, 15, 12, 13, 10, 11,  8,  9 >>,
     <<  7,  6,  5,  4,  3,  2,  1,  0, 15, 14, 13, 12, 11, 10,  9,  8 >>,
     <<  8,  9, 10, 11, 12, 13, 14, 15,  0,  1,  2,  3,  4,  5,  6,  7 >>,
     <<  9,  8, 11, 10, 13, 12, 15, 14,  1,  0,  3,  2,  5,  4,  7,  6 >>,
     << 10, 11,  8,  9, 14, 15, 12, 13,  2,  3,  0,  1,  6,  7,  4,  5 >>,
     << 11, 10,  9,  8, 15, 14, 13, 12,  3,  2,  1,  0,  7,  6,  5,  4 >>,
     << 12, 13, 14, 15,  8,  9, 10, 11,  4,  5,  6,  7,  0,  1,  2,  3 >>,
     << 13, 12, 15, 14,  9,  8, 11, 10,  5,  4,  7,  6,  1,  0,  3,  2 >>,
     << 14, 15, 12, 13, 10, 11,  8,  9,  6,  7,  4,  5,  2,  3,  0,  1 >>,
     << 15, 14, 13, 12, 11, 10,  9,  8,  7,  6,  5,  4,  3,  2,  1,  0 >> >>

\* Exclusive or of two bytes (the ^ of u8), nibble by nibble, as a table.
XOR8 ==
  [a \in Byte |-> [b \in Byte |->
     16 * XOR4[(a \div 16) + 1][(b \div 16) + 1] + XOR4[(a % 16) + 1][(b % 16) + 1]]]

Xor(a, b) == XOR8[a][b]

\* The tuple <<F(1), ..., F(16)>>: one 16-byte block built element by element.
Block16(F(_)) ==
  << F(1), F(2), F(3), F(4), F(5), F(6), F(7), F(8),
     F(9), F(10), F(11), F(12), F(13), F(14), F(15), F(16) >>

(***************************************************************************)
(* AES-128 (FIPS-197), the cipher behind aes::Aes128.  A block is 16 bytes *)
(* in input order; byte r + 4c is row r, column c of the cipher state.     *)
(***************************************************************************)
SBOX ==
  <<  99, 124, 119, 123, 242, 107, 111, 197,  48,   1, 103,  43, 254, 215, 171, 118,
     202, 130, 201, 125, 250,  89,  71, 240, 173, 212, 162, 175, 156, 164, 114, 192,
     183, 253, 147,  38,  54,  63, 247, 204,  52, 165, 229, 241, 113, 216,  49,  21,
       4, 199,  35, 195,  24, 150,   5, 154,   7,  18, 128, 226, 235,  39, 178, 117,
       9, 131,  44,  26,  27, 110,  90, 160,  82,  59, 214, 179,  41, 227,  47, 132,
      83, 209,   0, 237,  32, 252, 177,  91, 106, 203, 190,  57,  74,  76,  88, 207,
     208, 239, 170, 251,  67,  77,  51, 133,  69, 249,   2, 127,  80,  60, 159, 168,
      81, 163,  64, 143, 146, 157,  56, 245, 188, 182, 218,  33,  16, 255, 243, 210,
     205,  12,  19, 236,  95, 151,  68,  23, 196, 167, 126,  61, 100,  93,  25, 115,
      96, 129,  79, 220,  34,  42, 144, 136,  70, 238, 184,  20, 222,  94,  11, 219,
     224,  50,  58,  10,  73,   6,  36,  92, 194, 211, 172,  98, 145, 149, 228, 121,
     231, 200,  55, 109, 141, 213,  78, 169, 108,  86, 244, 234, 101, 122, 174,   8,
     186, 120,  37,  46,  28, 166, 180, 198, 232, 221, 116,  31,  75, 189, 139, 138,
     112,  62, 181, 102,  72,   3, 246,  14,  97,  53,  87, 185, 134, 193,  29, 158,
     225, 248, 152,  17, 105, 217, 142, 148, 155,  30, 135, 233, 206,  85,  40, 223,
     140, 161, 137,  13, 191, 230,  66, 104,  65, 153,  45,  15, 176,  84, 187,  22 >>

INV_SBOX ==
  <<  82,   9, 106, 213,  48,  54, 165,  56, 191,  64, 163, 158, 129, 243, 215, 251,
     124, 227,  57, 130, 155,  47, 255, 135,  52, 142,  67,  68, 196, 222, 233, 203,
      84, 123, 148,  50, 166, 194,  35,  61, 238,  76, 149,  11,  66, 250, 195,  78,
       8,  46, 161, 102,  40, 217,  36, 178, 118,  91, 162,  73, 109, 139, 209,  37,
     114, 248, 246, 100, 134, 104, 152,  22, 212, 164,  92, 204,  93, 101, 182, 146,
     108, 112,  72,  80, 253, 237, 185, 218,  94,  21,  70,  87, 167, 141, 157, 132,
     144, 216, 171,   0, 140, 188, 211,  10, 247, 228,  88,   5, 184, 179,  69,   6,
     208,  44,  30, 143, 202,  63,  15,   2, 193, 175, 189,   3,   1,  19, 138, 107,
      58, 145,  17,  65,  79, 103, 220, 234, 151, 242, 207, 206, 240, 180, 230, 115,
     150, 172, 116,  34, 231, 173,  53, 133, 226, 249,  55, 232,  28, 117, 223, 110,
      71, 241,  26, 113,  29,  41, 197, 137, 111, 183,  98,  14, 170,  24, 190,  27,
     252,  86,  62,  75, 198, 210, 121,  32, 154, 219, 192, 254, 120, 205,  90, 244,
      31, 221, 168,  51, 136,   7, 199,  49, 177,  18,  16,  89,  39, 128, 236,  95,
      96,  81, 127, 169,  25, 181,  74,  13,  45, 229, 122, 159, 147, 201, 156, 239,
     160, 224,  59,  77, 174,  42, 245, 176, 200, 235, 187,  60, 131,  83, 153,  97,
      23,  43,   4, 126, 186, 119, 214,  38, 225, 105,  20,  99,  85,  33,  12, 125 >>

\* Multiplication by x in GF(2^8) modulo x^8 + x^4 + x^3 + x + 1.
xtime(a) == IF a < 128 THEN 2 * a ELSE Xor(2 * a - 256, 27)

\* Multiplication by the constants of MixColumns and InvMixColumns, as tables.
MUL2 == [a \in Byte |-> xtime(a)]
MUL3 == [a \in Byte |-> Xor(xtime(a), a)]
MUL9 == [a \in Byte |-> Xor(xtime(xtime(xtime(a))), a)]
MUL11 == [a \in Byte |-> Xor(Xor(xtime(xtime(xtime(a))), xtime(a)), a)]
MUL13 == [a \in Byte |-> Xor(Xor(xtime(xtime(xtime(a))), xtime(xtime(a))), a)]
MUL14 == [a \in Byte |-> Xor(Xor(xtime(xtime(xtime(a))), xtime(xtime(a))), xtime(a))]

Xor4(a, b, c, d) == Xor(Xor(a, b), Xor(c, d))

SubBytes(s) == LET F(i) == SBOX[s[i] + 1] IN Block16(F)

InvSubBytes(s) == LET F(i) == INV_SBOX[s[i] + 1] IN Block16(F)

ShiftRows(s) ==
  << s[1], s[6], s[11], s[16], s[5], s[10], s[15], s[4],
     s[9], s[14], s[3], s[8], s[13], s[2], s[7], s[12] >>

InvShiftRows(s) ==
  << s[1], s[14], s[11], s[8], s[5], s[2], s[15], s[12],
     s[9], s[6], s[3], s[16], s[13], s[10], s[7], s[4] >>

\* Byte i of MixColumns: row (i-1) % 4 of the column that holds byte i.
MixColumns(s) ==
  LET F(i) ==
        LET b == i - ((i - 1) % 4)
            r == (i - 1) % 4
        IN  CASE r = 0 -> Xor4(MUL2[s[b]], MUL3[s[b + 1]], s[b + 2], s[b + 3])
              [] r = 1 -> Xor4(s[b], MUL2[s[b + 1]], MUL3[s[b + 2]], s[b + 3])
              [] r = 2 -> Xor4(s[b], s[b + 1], MUL2[s[b + 2]], MUL3[s[b + 3]])
              [] r = 3 -> Xor4(MUL3[s[b]], s[b + 1], s[b + 2], MUL2[s[b + 3]])
  IN  Block16(F)

InvMixColumns(s) ==
  LET F(i) ==
        LET b == i - ((i - 1) % 4)
            r == (i - 1) % 4
        IN  CASE r = 0 -> Xor4(MUL14[s[b]], MUL11[s[b + 1]], MUL13[s[b + 2]], MUL9[s[b + 3]])
              [] r = 1 -> Xor4(MUL9[s[b]], MUL14[s[b + 1]], MUL11[s[b + 2]], MUL13[s[b + 3]])
              [] r = 2 -> Xor4(MUL13[s[b]], MUL9[s[b + 1]], MUL14[s[b + 2]], MUL11[s[b + 3]])
              [] r = 3 -> Xor4(MUL11[s[b]], MUL13[s[b + 1]], MUL9[s[b + 2]], MUL14[s[b + 3]])
  IN  Block16(F)

AddRoundKey(s, k) == LET F(i) == Xor(s[i], k[i]) IN Block16(F)

\* The round constants of the key expansion: x^(i-1) in GF(2^8).
RCON == << 1, 2, 4, 8, 16, 32, 64, 128, 27, 54 >>

\* Round key i from round key i - 1 (both 16 bytes, four words).
NextRoundKey(k, i) ==
  LET w0 == << Xor(Xor(k[1], SBOX[k[14] + 1]), RCON[i]),
               Xor(k[2], SBOX[k[15] + 1]),
               Xor(k[3], SBOX[k[16] + 1]),
               Xor(k[4], SBOX[k[13] + 1]) >>
      w1 == << Xor(k[5], w0[1]), Xor(k[6], w0[2]), Xor(k[7], w0[3]), Xor(k[8], w0[4]) >>
      w2 == << Xor(k[9], w1[1]), Xor(k[10], w1[2]), Xor(k[11], w1[3]), Xor(k[12], w1[4]) >>
      w3 == << Xor(k[13], w2[1]), Xor(k[14], w2[2]), Xor(k[15], w2[3]), Xor(k[16], w2[4]) >>
  IN  w0 \o w1 \o w2 \o w3

\* The key schedule: round keys 0..10 as a sequence of 11 blocks.
RECURSIVE KeyExpansion(_, _)
KeyExpansion(rks, i) ==
  IF i > 10 THEN rks
  ELSE KeyExpansion(Append(rks, NextRoundKey(rks[i], i)), i + 1)

\* Aes128::new: the cipher state is the expanded key.
Aes128_new(k) == KeyExpansion(<< k >>, 1)

\* The blocks of the cipher: 16 bytes.
Block == [1..16 -> Byte]

\* Aes128::encrypt_block: the initial round key addition, nine full rounds
\* and the final round without MixColumns.
encrypt_block(rks, block) ==
  LET Rounds[x \in Block \X (1..10)] ==
        LET s == x[1]
            r == x[2]
        IN  IF r = 10
              THEN AddRoundKey(ShiftRows(SubBytes(s)), rks[11])
              ELSE Rounds[<< AddRoundKey(MixColumns(ShiftRows(SubBytes(s))), rks[r + 1]),
                             r + 1 >>]
  IN  Rounds[<< AddRoundKey(block, rks[1]), 1 >>]

\* Aes128::decrypt_block: the inverse cipher, round keys taken in reverse.
decrypt_block(rks, block) ==
  LET Rounds[x \in Block \X (0..9)] ==
        LET s == x[1]
            r == x[2]
        IN  IF r = 0
              THEN AddRoundKey(InvSubBytes(InvShiftRows(s)), rks[1])
              ELSE Rounds[<< InvMixColumns(
                               AddRoundKey(InvSubBytes(InvShiftRows(s)), rks[r + 1])),
                             r - 1 >>]
  IN  Rounds[<< AddRoundKey(block, rks[11]), 9 >>]

(***************************************************************************)
(* The error type (src/src/error.rs) and the shapes of results.            *)
(***************************************************************************)
Error == { "Decryption", "Encoding", "Length" }

Ok(v) == [ok |-> TRUE, val |-> v, err |-> "none"]

Err(e) == [ok |-> FALSE, val |-> << >>, err |-> e]

\* impl From<TryFromSliceError> for Error
Error_from_TryFromSliceError == "Length"

\* impl From<base16ct::Error> for Error
Error_from_base16ct(err) ==
  CASE err = "InvalidEncoding" -> "Encoding"
    [] err = "InvalidLength" -> "Length"

\* What a call that may panic yields: a value, or the panic and its message.
Return(v) == [panic |-> FALSE, val |-> v, msg |-> ""]

Panic(m) == [panic |-> TRUE, val |-> << >>, msg |-> m]

(***************************************************************************)
(* Hex encoding and decoding as base16ct does them.                        *)
(***************************************************************************)
\* A slip to test C6 against: the upper-case alphabet (base16ct::upper).
upper_encode_nibble(src) ==
  LET ret == src + 48
  IN  IF 57 - ret < 0 THEN ret + 7 ELSE ret

\* base16ct::lower::encode_nibble: 0..9 to '0'..'9', 10..15 to 'a'..'f'.
lower_encode_nibble(src) ==
  LET ret == src + 48
  IN  IF 57 - ret < 0 THEN ret + 39 ELSE ret

\* A slip to test C1 against: the low nibble written first.
lower_encode_low_nibble_first(src, dstLen) ==
  IF dstLen < 2 * Len(src)
    THEN Err("InvalidLength")
    ELSE Ok([j \in 1..(2 * Len(src)) |->
               IF j % 2 = 1
                 THEN lower_encode_nibble(src[(j + 1) \div 2] % 16)
                 ELSE lower_encode_nibble(src[j \div 2] \div 16)])

\* base16ct::lower::encode(src, dst): two characters per byte, high nibble
\* first; dst must have room for them.
lower_encode(src, dstLen) ==
  IF dstLen < 2 * Len(src)
    THEN Err("InvalidLength")
    ELSE Ok([j \in 1..(2 * Len(src)) |->
               IF j % 2 = 1
                 THEN lower_encode_nibble(src[(j + 1) \div 2] \div 16)
                 ELSE lower_encode_nibble(src[j \div 2] % 16)])

\* A slip to test C3 against: the lower-case decoder (base16ct::lower).
lower_decode_nibble(src) ==
  -1 + (IF 47 < src /\ src < 58 THEN src - 47 ELSE 0)
     + (IF 96 < src /\ src < 103 THEN src - 86 ELSE 0)

\* base16ct::mixed::decode_nibble: the value of a hex digit of either case,
\* and -1 (0xffff as u16) for any other byte.
mixed_decode_nibble(src) ==
  -1 + (IF 47 < src /\ src < 58 THEN src - 47 ELSE 0)
     + (IF 64 < src /\ src < 71 THEN src - 54 ELSE 0)
     + (IF 96 < src /\ src < 103 THEN src - 86 ELSE 0)

\* base16ct::mixed::decode(src, dst): dst must have room for Len(src) / 2
\* bytes; any byte that is no hex digit makes the whole decode fail.
mixed_decode(src, dstLen) ==
  LET n == Len(src) \div 2
      hi(j) == mixed_decode_nibble(src[2 * j - 1])
      lo(j) == mixed_decode_nibble(src[2 * j])
  IN  IF dstLen < n
        THEN Err("InvalidLength")
        ELSE IF \E j \in 1..n : hi(j) < 0 \/ lo(j) < 0
               THEN Err("InvalidEncoding")
               ELSE Ok([j \in 1..n |-> 16 * hi(j) + lo(j)])

\* core::str::from_utf8(..).is_ok(): the well-formed UTF-8 byte sequences.
RECURSIVE IsUtf8(_)
IsUtf8(b) ==
  LET n == Len(b)
      Cont(i, lo, hi) == i <= n /\ lo <= b[i] /\ b[i] <= hi
      Rest(k) == IsUtf8(SubSeq(b, k + 1, n))
  IN  IF n = 0 THEN TRUE
      ELSE IF b[1] < 128 THEN Rest(1)
      ELSE IF 194 <= b[1] /\ b[1] <= 223 THEN Cont(2, 128, 191) /\ Rest(2)
      ELSE IF b[1] = 224 THEN Cont(2, 160, 191) /\ Cont(3, 128, 191) /\ Rest(3)
      ELSE IF b[1] = 237 THEN Cont(2, 128, 159) /\ Cont(3, 128, 191) /\ Rest(3)
      ELSE IF 225 <= b[1] /\ b[1] <= 239
        THEN Cont(2, 128, 191) /\ Cont(3, 128, 191) /\ Rest(3)
      ELSE IF b[1] = 240
        THEN Cont(2, 144, 191) /\ Cont(3, 128, 191) /\ Cont(4, 128, 191) /\ Rest(4)
      ELSE IF 241 <= b[1] /\ b[1] <= 243
        THEN Cont(2, 128, 191) /\ Cont(3, 128, 191) /\ Cont(4, 128, 191) /\ Rest(4)
      ELSE IF b[1] = 244
        THEN Cont(2, 128, 143) /\ Cont(3, 128, 191) /\ Cont(4, 128, 191) /\ Rest(4)
      ELSE FALSE

(***************************************************************************)
(* The codec (src/src/cruid.rs).  A Cruid is the record [bytes |-> b] of   *)
(* its one field; Bytes is a sequence of 16 bytes.                         *)
(***************************************************************************)
SERIALIZED_SIZE == 36

HYPHEN == 45

\* A slip to test C5 against: the second and third byte ranges exchanged.
BYTES_RANGES_exchanged ==
  << [lo |-> 0, hi |-> 3], [lo |-> 6, hi |-> 7], [lo |-> 4, hi |-> 5],
     [lo |-> 8, hi |-> 9], [lo |-> 10, hi |-> 15] >>

\* Ranges within Bytes which correspond to CRUID fields (offsets, inclusive).
BYTES_RANGES ==
  << [lo |-> 0, hi |-> 3], [lo |-> 4, hi |-> 5], [lo |-> 6, hi |-> 7],
     [lo |-> 8, hi |-> 9], [lo |-> 10, hi |-> 15] >>

\* Ranges within a CRUID where fields are located (offsets, inclusive).
FIELD_RANGES ==
  << [lo |-> 0, hi |-> 7], [lo |-> 9, hi |-> 12], [lo |-> 14, hi |-> 17],
     [lo |-> 19, hi |-> 22], [lo |-> 24, hi |-> 35] >>

\* The offsets parse expects to hold hyphens.
HYPHEN_OFFSETS == { 8, 13, 18, 23 }

\* &s[range]
Slice(s, range) == SubSeq(s, range.lo + 1, range.hi + 1)

RangeLen(range) == range.hi - range.lo + 1

\* s with s[range] overwritten by data (data as long as the range).
WriteSlice(s, range, data) ==
  SubSeq(s, 1, range.lo) \o data \o SubSeq(s, range.hi + 2, Len(s))

\* Cruid::iter_fields: the five field slices, in order.
iter_fields(cruid) == [i \in 1..Len(FIELD_RANGES) |-> Slice(cruid.bytes, FIELD_RANGES[i])]

\* A slip to test C4 against: a buffer of 4 bytes, too small for the last field.
RECURSIVE parse_fields_small_buffer(_, _)
parse_fields_small_buffer(fields, i) ==
  IF i > Len(fields) THEN Ok(<< >>)
  ELSE LET d == mixed_decode(fields[i], 4)
       IN  IF d.ok THEN parse_fields_small_buffer(fields, i + 1)
           ELSE Err(Error_from_base16ct(d.err))

\* The loop of Cruid::parse over the fields, each decoded into a 6-byte
\* buffer: the first error ends it.
RECURSIVE parse_fields(_, _)
parse_fields(fields, i) ==
  IF i > Len(fields) THEN Ok(<< >>)
  ELSE LET d == mixed_decode(fields[i], 6)
       IN  IF d.ok THEN parse_fields(fields, i + 1)
           ELSE Err(Error_from_base16ct(d.err))

\* A slip to test C9 against: the hyphens are not validated.
parse_without_hyphen_check(string) ==
  IF Len(string) # SERIALIZED_SIZE
    THEN Err(Error_from_TryFromSliceError)
    ELSE LET cruid == [bytes |-> string]
             checked == parse_fields(iter_fields(cruid), 1)
         IN  IF checked.ok THEN Ok(cruid) ELSE checked

\* Cruid::parse
parse(string) ==
  IF Len(string) # SERIALIZED_SIZE
    THEN Err(Error_from_TryFromSliceError)
    ELSE IF ~ \A i \in HYPHEN_OFFSETS : string[i + 1] = HYPHEN
      THEN Err("Encoding")
      ELSE LET cruid == [bytes |-> string]
               checked == parse_fields(iter_fields(cruid), 1)
           IN  IF checked.ok THEN Ok(cruid) ELSE checked

\* Cruid::as_str; its debug assertion is compiled in debug builds only.
as_str(cruid, debug) ==
  IF debug /\ ~ IsUtf8(cruid.bytes)
    THEN Panic("assertion failed: str::from_utf8(&self.bytes).is_ok()")
    ELSE Return(cruid.bytes)

\* The loop of Cruid::from_bytes over the zipped ranges.
RECURSIVE from_bytes_loop(_, _, _)
from_bytes_loop(input, output, i) ==
  IF i > Len(BYTES_RANGES) \/ i > Len(FIELD_RANGES) THEN Return(output)
  ELSE LET e == lower_encode(Slice(input, BYTES_RANGES[i]), RangeLen(FIELD_RANGES[i]))
       IN  IF e.ok
             THEN from_bytes_loop(input, WriteSlice(output, FIELD_RANGES[i], e.val), i + 1)
             ELSE Panic("hex encode failed")

\* Cruid::from_bytes; its assertion is compiled in debug builds only.
from_bytes(input, debug) ==
  LET r == from_bytes_loop(input, [j \in 1..SERIALIZED_SIZE |-> HYPHEN], 1)
  IN  IF r.panic THEN r
      ELSE IF debug /\ ~ parse(r.val).ok
        THEN Panic("assertion failed: Self::parse(output).is_ok()")
        ELSE Return([bytes |-> r.val])

\* The loop of Cruid::to_bytes over the fields zipped with BYTES_RANGES.
RECURSIVE to_bytes_loop(_, _, _)
to_bytes_loop(fields, ret, i) ==
  IF i > Len(fields) \/ i > Len(BYTES_RANGES) THEN Return(ret)
  ELSE LET d == mixed_decode(fields[i], RangeLen(BYTES_RANGES[i]))
       IN  IF d.ok
             THEN to_bytes_loop(fields, WriteSlice(ret, BYTES_RANGES[i], d.val), i + 1)
             ELSE Panic("hex decode failed")

\* Cruid::to_bytes
to_bytes(cruid) == to_bytes_loop(iter_fields(cruid), [j \in 1..16 |-> 0], 1)

\* The derived PartialEq of Cruid: its bytes compared.
Cruid_eq(a, b) == a.bytes = b.bytes

\* A slip to test C7 against: Uuid::from_bytes_le, which reverses the bytes
\* of the first three fields.
Uuid_from_Cruid_le(cruid) ==
  LET b == to_bytes(cruid)
      v == b.val
  IN  IF b.panic THEN b
      ELSE Return([uuid |-> << v[4], v[3], v[2], v[1], v[6], v[5], v[8], v[7] >>
                              \o SubSeq(v, 9, 16)])

\* impl From<Cruid> for Uuid: Uuid::from_bytes wraps the 16 bytes.
Uuid_from_Cruid(cruid) ==
  LET b == to_bytes(cruid)
  IN  IF b.panic THEN b ELSE Return([uuid |-> b.val])

\* impl From<Uuid> for Cruid: Uuid::as_bytes hands the 16 bytes back.
Cruid_from_Uuid(uuid, debug) == from_bytes(uuid.uuid, debug)

(***************************************************************************)
(* The cipher wrapper (src/src/encryption.rs).  A u64 is four 16-bit       *)
(* limbs, most significant first: 42 is <<0, 0, 0, 42>>.                   *)
(***************************************************************************)
BYTE_SIZE == 16

\* A slip to test C2 against: u64::to_be_bytes.
to_be_bytes(v) ==
  << v[1] \div 256, v[1] % 256, v[2] \div 256, v[2] % 256,
     v[3] \div 256, v[3] % 256, v[4] \div 256, v[4] % 256 >>

\* u64::to_le_bytes: eight bytes, least significant first.
to_le_bytes(v) ==
  << v[4] % 256, v[4] \div 256, v[3] % 256, v[3] \div 256,
     v[2] % 256, v[2] \div 256, v[1] % 256, v[1] \div 256 >>

\* u64::from_le_bytes
from_le_bytes(b) ==
  << 256 * b[8] + b[7], 256 * b[6] + b[5], 256 * b[4] + b[3], 256 * b[2] + b[1] >>

\* <[u8; 8]>::try_from(slice): only a slice of exactly eight bytes converts.
try_into_8(slice) ==
  IF Len(slice) = 8 THEN Ok(slice) ELSE Err(Error_from_TryFromSliceError)

\* EncryptionKey::new: the key is the cipher keyed with the 16 bytes.
EncryptionKey_new(bytes) == Aes128_new(bytes)

\* EncryptionKey::encrypt
encrypt(key, plaintext, debug) ==
  LET block == to_le_bytes(plaintext) \o << 0, 0, 0, 0, 0, 0, 0, 0 >>
  IN  from_bytes(encrypt_block(key, block), debug)

\* A slip to test C8 against: the two halves of the block exchanged.
decrypt_halves_exchanged(key, cruid) ==
  LET raw == to_bytes(cruid)
  IN  IF raw.panic THEN raw
      ELSE LET block == decrypt_block(key, raw.val)
               a == try_into_8(SubSeq(block, 9, Len(block)))
               b == try_into_8(SubSeq(block, 1, 8))
           IN  IF ~ a.ok THEN Return(a)
               ELSE IF ~ b.ok THEN Return(b)
               ELSE IF from_le_bytes(b.val) = << 0, 0, 0, 0 >>
                 THEN Return(Ok(from_le_bytes(a.val)))
                 ELSE Return(Err("Decryption"))

\* A slip to test C10 against: the tag is not checked.
decrypt_without_tag_check(key, cruid) ==
  LET raw == to_bytes(cruid)
  IN  IF raw.panic THEN raw
      ELSE LET block == decrypt_block(key, raw.val)
               a == try_into_8(SubSeq(block, 1, 8))
           IN  IF ~ a.ok THEN Return(a) ELSE Return(Ok(from_le_bytes(a.val)))

\* EncryptionKey::decrypt
decrypt(key, cruid) ==
  LET raw == to_bytes(cruid)
  IN  IF raw.panic THEN raw
      ELSE LET block == decrypt_block(key, raw.val)
               a == try_into_8(SubSeq(block, 1, 8))
               b == try_into_8(SubSeq(block, 9, Len(block)))
           IN  IF ~ a.ok THEN Return(a)
               ELSE IF ~ b.ok THEN Return(b)
               ELSE LET value == from_le_bytes(a.val)
                        tag == from_le_bytes(b.val)
                    IN  IF tag = << 0, 0, 0, 0 >>
                          THEN Return(Ok(value))
                          ELSE Return(Err("Decryption"))

(***************************************************************************)
(* The inputs.                                                             *)
(***************************************************************************)
\* The longest chain of calls followed from one input.
MaxCalls == 4

\* How many bytes longer than a CRUID an input text may be.
MaxExtra == 2

\* How many keys and how many plaintexts are tried.
NumKeys == 3

NumPlaintexts == 5

\* "123e4567-e89b-12d3-a456-426614174000" (tests::EXAMPLE_CRUID)
EXAMPLE_CRUID ==
  << 49, 50, 51, 101, 52, 53, 54, 55, 45, 101, 56, 57, 98, 45, 49, 50, 100, 51,
     45, 97, 52, 53, 54, 45, 52, 50, 54, 54, 49, 52, 49, 55, 52, 48, 48, 48 >>

\* tests::EXAMPLE_BYTES
EXAMPLE_BYTES ==
  << 18, 62, 69, 103, 232, 155, 18, 211, 164, 86, 66, 102, 20, 23, 64, 0 >>

\* A text with the letters a..z put in upper case, as a foreign producer may.
Upper(text) ==
  [i \in 1..Len(text) |-> IF 96 < text[i] /\ text[i] < 123 THEN text[i] - 32 ELSE text[i]]

\* A text with its last character replaced by another hex digit.
Tamper(text) ==
  [i \in 1..Len(text) |->
     IF i < Len(text) THEN text[i] ELSE IF text[i] = 48 THEN 49 ELSE 48]

\* text with the byte at index p replaced by b.
Subst(text, p, b) == [i \in 1..Len(text) |-> IF i = p THEN b ELSE text[i]]

\* Every single-byte change of the example, at every offset, to every byte.
Substitutions ==
  { Subst(EXAMPLE_CRUID, p, b) : p \in 1..SERIALIZED_SIZE, b \in Byte }

\* The example cut short, to every length below 36, and as many bytes of 0xff.
Truncations ==
  { SubSeq(EXAMPLE_CRUID, 1, n) : n \in 0..(SERIALIZED_SIZE - 1) }
    \cup { [i \in 1..n |-> 255] : n \in 1..(SERIALIZED_SIZE - 1) }

\* The example with one to MaxExtra hex digits too many.
Extensions ==
  { EXAMPLE_CRUID \o [i \in 1..n |-> 48] : n \in 1..MaxExtra }

\* Texts with more than one byte changed.
OtherTexts ==
  { Upper(EXAMPLE_CRUID),
    Subst(Upper(EXAMPLE_CRUID), 36, 102),
    Subst(Subst(EXAMPLE_CRUID, 9, 48), 1, 103),
    Subst(Subst(EXAMPLE_CRUID, 14, 95), 24, 95),
    Subst(Subst(EXAMPLE_CRUID, 35, 195), 36, 169),
    [i \in 1..SERIALIZED_SIZE |-> 45],
    [i \in 1..SERIALIZED_SIZE |-> 48] }

\* The texts given to parse when the codec is checked on its own.
CodecTexts == Substitutions \cup Truncations \cup Extensions \cup OtherTexts

\* The 16 bytes b, b + 17, b + 34, ... (mod 256): over all b, every byte
\* value at every offset.
RawOf(b) == [i \in 1..16 |-> (b + 17 * (i - 1)) % 256]

\* The raw values given to from_bytes when the codec is checked on its own.
CodecRaws == { RawOf(b) : b \in Byte } \cup { EXAMPLE_BYTES, [i \in 1..16 |-> 0] }

\* The texts and raw values given to the whole interface.
SampleTexts ==
  OtherTexts \cup { << >>, EXAMPLE_CRUID, SubSeq(EXAMPLE_CRUID, 1, 35),
                    Subst(EXAMPLE_CRUID, 19, 32), Subst(EXAMPLE_CRUID, 30, 71) }

SampleRaws == { EXAMPLE_BYTES, [i \in 1..16 |-> 0], [i \in 1..16 |-> 255] }

\* Key 1 is all zero, key 2 is 00 01 .. 0f, and so on.
KeyOf(n) == [i \in 1..BYTE_SIZE |-> ((n - 1) * (i - 1 + 16 * (n - 2))) % 256]

Keys == { KeyOf(n) : n \in 1..NumKeys }

\* Plaintext 1 is 42, plaintext 2 is 2^64 - 1, plaintext 3 is 0.
PlaintextOf(n) ==
  CASE n = 1 -> << 0, 0, 0, 42 >>
    [] n = 2 -> << 65535, 65535, 65535, 65535 >>
    [] OTHER -> << ((n - 3) * 4660) % 65536, ((n - 3) * 22136) % 65536,
                   ((n - 3) * 39612) % 65536, ((n - 3) * 57072) % 65536 >>

Plaintexts == { PlaintextOf(n) : n \in 1..NumPlaintexts }

(***************************************************************************)
(* The state: the calls a caller has made, each with its argument and what *)
(* it returned, starting from one input and then each call taking what the *)
(* call before it returned; the panic that ended them, if any; and whether *)
(* the build has debug assertions.                                         *)
(***************************************************************************)
VARIABLES calls, panic, debug_assertions

vars == << calls, panic, debug_assertions >>

NoKey == << >>

Call(op, key, arg, ret) == [op |-> op, key |-> key, arg |-> arg, ret |-> ret]

Last == calls[Len(calls)]

\* The call is the first one.
First == panic = "" /\ calls = << >>

\* The call follows another one.
Chained == panic = "" /\ calls # << >> /\ Len(calls) < MaxCalls

\* Whether a call returned a Cruid, and the Cruid it returned.
ReturnsCruid(c) ==
  \/ c.op \in { "from_bytes", "encrypt", "Cruid::from" }
  \/ c.op = "parse" /\ c.ret.ok

CruidOf(c) == IF c.op = "parse" THEN c.ret.val ELSE c.ret

\* The call returns r.val, or panics.
Do(op, key, arg, r) ==
  /\ IF r.panic
       THEN panic' = r.msg /\ calls' = calls
       ELSE panic' = panic /\ calls' = Append(calls, Call(op, key, arg, r.val))
  /\ UNCHANGED debug_assertions

Init ==
  /\ calls = << >>
  /\ panic = ""
  /\ debug_assertions \in BOOLEAN

\* Cruid::parse(text) on one of the input texts.
ParseInput(texts) ==
  /\ First
  /\ \E text \in texts : Do("parse", NoKey, text, Return(parse(text)))

\* Cruid::from_bytes(raw) on one of the input values.
FormatInput(raws) ==
  /\ First
  /\ \E raw \in raws : Do("from_bytes", NoKey, raw, from_bytes(raw, debug_assertions))

\* EncryptionKey::new(k).encrypt(v) on one of the keys and plaintexts.
EncryptInput ==
  /\ First
  /\ \E k \in Keys, v \in Plaintexts :
       Do("encrypt", k, v, encrypt(EncryptionKey_new(k), v, debug_assertions))

\* cruid.to_bytes() on the Cruid just returned.
ToBytes ==
  /\ Chained
  /\ ReturnsCruid(Last)
  /\ Do("to_bytes", NoKey, CruidOf(Last), to_bytes(CruidOf(Last)))

\* cruid.as_str() on the Cruid just returned.
AsStr ==
  /\ Chained
  /\ ReturnsCruid(Last)
  /\ Do("as_str", NoKey, CruidOf(Last), as_str(CruidOf(Last), debug_assertions))

\* Cruid::from_bytes on the bytes to_bytes just returned.
Reformat ==
  /\ Chained
  /\ Last.op = "to_bytes"
  /\ Do("from_bytes", NoKey, Last.ret, from_bytes(Last.ret, debug_assertions))

\* Uuid::from(cruid) on the Cruid just returned.
ToUuid ==
  /\ Chained
  /\ ReturnsCruid(Last)
  /\ Do("Uuid::from", NoKey, CruidOf(Last), Uuid_from_Cruid(CruidOf(Last)))

\* Cruid::from(uuid) on the Uuid just returned.
FromUuid ==
  /\ Chained
  /\ Last.op = "Uuid::from"
  /\ Do("Cruid::from", NoKey, Last.ret, Cruid_from_Uuid(Last.ret, debug_assertions))

\* Cruid::parse on the text of the Cruid just returned, after it went through
\* a producer that put it in upper case or changed it.
Reparse ==
  /\ Chained
  /\ ReturnsCruid(Last)
  /\ \E text \in { Upper(CruidOf(Last).bytes), Tamper(CruidOf(Last).bytes) } :
       Do("parse", NoKey, text, Return(parse(text)))

\* EncryptionKey::new(k).decrypt(&cruid) on the Cruid just returned, under
\* one of the keys.
Decrypt ==
  /\ Chained
  /\ ReturnsCruid(Last)
  /\ \E k \in Keys :
       Do("decrypt", k, CruidOf(Last), decrypt(EncryptionKey_new(k), CruidOf(Last)))

\* The whole interface, on sample inputs.
Next ==
  \/ ParseInput(SampleTexts)
  \/ FormatInput(SampleRaws)
  \/ EncryptInput
  \/ ToBytes
  \/ AsStr
  \/ Reformat
  \/ ToUuid
  \/ FromUuid
  \/ Reparse
  \/ Decrypt

Spec == Init /\ [][Next]_vars

\* The codec alone, on every single-byte change of the example text and on
\* raw values with every byte value at every offset.
CodecNext ==
  \/ ParseInput(CodecTexts)
  \/ FormatInput(CodecRaws)
  \/ ToBytes
  \/ AsStr
  \/ Reformat
  \/ ToUuid
  \/ FromUuid

CodecSpec == Init /\ [][CodecNext]_vars

(***************************************************************************)
(* What the claims are stated with: the textual format as the              *)
(* specification words it, independent of the code's tables.               *)
(***************************************************************************)
\* '0'..'9', 'A'..'F', 'a'..'f'
HexDigits == (48..57) \cup (65..70) \cup (97..102)

\* "0123456789abcdef"
LowerHex == << 48, 49, 50, 51, 52, 53, 54, 55, 56, 57, 97, 98, 99, 100, 101, 102 >>

\* The indexes (offsets 8, 13, 18, 23) of the four hyphens.
HyphenIndexes == { 9, 14, 19, 24 }

\* 36 bytes, hyphens at the four fixed offsets, hex digits of either case
\* everywhere else.
WellFormed(text) ==
  /\ Len(text) = 36
  /\ \A i \in 1..36 :
       IF i \in HyphenIndexes THEN text[i] = 45 ELSE text[i] \in HexDigits

\* The text with its hex digits A..F put in lower case.
Lowercased(text) ==
  [i \in 1..Len(text) |-> IF 64 < text[i] /\ text[i] < 71 THEN text[i] + 32 ELSE text[i]]

\* The text has no hex digit in upper case.
IsLowercase(text) == \A i \in 1..Len(text) : ~ (64 < text[i] /\ text[i] < 71)

\* The text offset of the first hex digit of raw byte k (offsets from 0):
\* bytes 0..4, 4..6, 6..8, 8..10, 10..16 go to the text ranges that start at
\* 0, 9, 14, 19 and 24.
TextOffset(k) ==
  CASE k < 4 -> 2 * k
    [] k < 6 -> 9 + 2 * (k - 4)
    [] k < 8 -> 14 + 2 * (k - 6)
    [] k < 10 -> 19 + 2 * (k - 8)
    [] OTHER -> 24 + 2 * (k - 10)

\* Call i + 1 was made on what call i returned.
Follows(i, op1, op2) ==
  /\ i + 1 <= Len(calls)
  /\ calls[i].op = op1
  /\ calls[i + 1].op = op2

(***************************************************************************)
(* C1: for every 16-byte value r, from_bytes(r).to_bytes() is r, and       *)
(* neither call panics.                                                    *)
(***************************************************************************)
C1_ToBytesOfFromBytes ==
  /\ panic = ""
  /\ \A i \in 1..Len(calls) :
       Follows(i, "from_bytes", "to_bytes") => calls[i + 1].ret = calls[i].arg

C1_Witness ==
  /\ Len(calls) = 2
  /\ Follows(1, "from_bytes", "to_bytes")
  /\ calls[1].arg = RawOf(171)
  /\ calls[2].ret = RawOf(171)

(***************************************************************************)
(* C2: decrypting what encrypt returned, under the same key, returns       *)
(* Ok of the plaintext, for every key and every 64-bit plaintext.          *)
(***************************************************************************)
C2_DecryptOfEncrypt ==
  \A i \in 1..Len(calls) :
    (Follows(i, "encrypt", "decrypt") /\ calls[i + 1].key = calls[i].key)
      => calls[i + 1].ret = Ok(calls[i].arg)

C2_Witness ==
  /\ Len(calls) = 2
  /\ Follows(1, "encrypt", "decrypt")
  /\ calls[1].key = KeyOf(1)
  /\ calls[2].key = KeyOf(1)
  /\ calls[1].arg = << 0, 0, 0, 42 >>
  /\ calls[2].ret = Ok(<< 0, 0, 0, 42 >>)

(***************************************************************************)
(* C3: parse returns Ok exactly for the texts of 36 bytes with hyphens at  *)
(* offsets 8, 13, 18, 23 and hex digits of either case elsewhere, and the  *)
(* Cruid it returns holds the input bytes verbatim, as as_str shows.       *)
(***************************************************************************)
C3_ParseAcceptsExactlyWellFormed ==
  \A i \in 1..Len(calls) :
    calls[i].op = "parse" =>
      /\ calls[i].ret.ok <=> WellFormed(calls[i].arg)
      /\ calls[i].ret.ok => calls[i].ret.val.bytes = calls[i].arg
      /\ Follows(i, "parse", "as_str") => calls[i + 1].ret = calls[i].arg

C3_Witness ==
  /\ Len(calls) = 2
  /\ Follows(1, "parse", "as_str")
  /\ calls[1].arg = Subst(EXAMPLE_CRUID, 4, 69)
  /\ calls[2].ret = Subst(EXAMPLE_CRUID, 4, 69)

(***************************************************************************)
(* C4: parse answers a text that is not 36 bytes long with Error::Length   *)
(* whatever it holds, a text of 36 bytes that it rejects with              *)
(* Error::Encoding, and nothing with Error::Decryption.                    *)
(***************************************************************************)
C4_ParseErrorKinds ==
  \A i \in 1..Len(calls) :
    calls[i].op = "parse" =>
      /\ Len(calls[i].arg) # 36 => calls[i].ret = Err("Length")
      /\ (Len(calls[i].arg) = 36 /\ ~ calls[i].ret.ok) => calls[i].ret = Err("Encoding")
      /\ calls[i].ret.err # "Decryption"

C4_Witness ==
  /\ Len(calls) = 1
  /\ calls[1].op = "parse"
  /\ calls[1].arg = Subst(EXAMPLE_CRUID, 36, 103)
  /\ calls[1].ret = Err("Encoding")

(***************************************************************************)
(* C5: from_bytes returns 36 bytes with hyphens at offsets 8, 13, 18, 23   *)
(* and, for each raw byte, its two lower-case hex digits, high nibble      *)
(* first, at its place in the text range of its field; the example bytes   *)
(* give the example text.                                                  *)
(***************************************************************************)
C5_FromBytesLayout ==
  \A i \in 1..Len(calls) :
    calls[i].op = "from_bytes" =>
      LET raw == calls[i].arg
          text == calls[i].ret.bytes
      IN  /\ Len(text) = 36
          /\ \A h \in HyphenIndexes : text[h] = 45
          /\ \A k \in 0..15 :
               /\ text[TextOffset(k) + 1] = LowerHex[(raw[k + 1] \div 16) + 1]
               /\ text[TextOffset(k) + 2] = LowerHex[(raw[k + 1] % 16) + 1]
          /\ raw = EXAMPLE_BYTES => text = EXAMPLE_CRUID

C5_Witness ==
  /\ Len(calls) = 1
  /\ calls[1].op = "from_bytes"
  /\ calls[1].arg = EXAMPLE_BYTES
  /\ calls[1].ret.bytes = EXAMPLE_CRUID

(***************************************************************************)
(* C6: for a Cruid id, from_bytes(id.to_bytes()) is id's text with its hex *)
(* digits in lower case, so it is id exactly when id has no upper-case hex *)
(* digit, and it decodes to the same 16 bytes as id.                       *)
(***************************************************************************)
C6_FormatOfDecodeLowercases ==
  \A i \in 1..Len(calls) :
    (ReturnsCruid(calls[i]) /\ Follows(i + 1, "to_bytes", "from_bytes")) =>
      LET id == CruidOf(calls[i])
          again == calls[i + 2].ret
      IN  /\ again.bytes = Lowercased(id.bytes)
          /\ Cruid_eq(again, id) <=> IsLowercase(id.bytes)
          /\ Follows(i + 2, "from_bytes", "to_bytes")
               => calls[i + 3].ret = calls[i + 1].ret

C6_Witness ==
  /\ Len(calls) = 4
  /\ calls[1].op = "parse"
  /\ calls[1].arg = Upper(EXAMPLE_CRUID)
  /\ Follows(2, "to_bytes", "from_bytes")
  /\ calls[3].ret.bytes = EXAMPLE_CRUID
  /\ Follows(3, "from_bytes", "to_bytes")
  /\ calls[4].ret = EXAMPLE_BYTES

(***************************************************************************)
(* C7, as claimed: for every Cruid c from parse or from_bytes,             *)
(* Cruid::from(Uuid::from(c)) == c.                                        *)
(***************************************************************************)
C7_UuidRoundTripIsIdentity ==
  \A i \in 1..Len(calls) :
    Follows(i, "Uuid::from", "Cruid::from") => Cruid_eq(calls[i + 1].ret, calls[i].arg)

(***************************************************************************)
(* C7, amended: Cruid::from(Uuid::from(c)) is c with its hex digits in     *)
(* lower case, so it == c when c has no upper-case hex digit; the Uuid     *)
(* holds c.to_bytes(), and the Cruid that comes back converts to the same  *)
(* Uuid.                                                                   *)
(***************************************************************************)
C7_UuidRoundTripLowercases ==
  \A i \in 1..Len(calls) :
    Follows(i, "Uuid::from", "Cruid::from") =>
      LET c == calls[i].arg
          back == calls[i + 1].ret
      IN  /\ back.bytes = Lowercased(c.bytes)
          /\ IsLowercase(c.bytes) => Cruid_eq(back, c)
          /\ calls[i].ret.uuid = to_bytes(c).val
          /\ Follows(i + 1, "Cruid::from", "Uuid::from")
               => calls[i + 2].ret = calls[i].ret

C7_Witness ==
  /\ Len(calls) = 3
  /\ calls[1].op = "parse"
  /\ calls[1].arg = EXAMPLE_CRUID
  /\ Follows(2, "Uuid::from", "Cruid::from")
  /\ calls[2].ret.uuid = EXAMPLE_BYTES
  /\ Cruid_eq(calls[3].ret, calls[1].ret.val)

(***************************************************************************)
(* C8: decrypt deciphers id.to_bytes() as one block and returns            *)
(* Err(Error::Decryption) exactly when bytes 8..16 of the block are not    *)
(* all zero, and otherwise Ok of bytes 0..8 read as a little-endian u64;   *)
(* it returns no other error and does not panic.                           *)
(***************************************************************************)
C8_DecryptChecksTheTag ==
  /\ panic = ""
  /\ \A i \in 1..Len(calls) :
       calls[i].op = "decrypt" =>
         LET block == decrypt_block(Aes128_new(calls[i].key), to_bytes(calls[i].arg).val)
             value == << block[7] + 256 * block[8], block[5] + 256 * block[6],
                         block[3] + 256 * block[4], block[1] + 256 * block[2] >>
         IN  IF \E j \in 9..16 : block[j] # 0
               THEN calls[i].ret = Err("Decryption")
               ELSE calls[i].ret = Ok(value)

C8_Witness ==
  /\ Len(calls) = 3
  /\ calls[1].op = "encrypt"
  /\ calls[1].key = KeyOf(1)
  /\ calls[2].op = "parse"
  /\ calls[2].arg = Tamper(calls[1].ret.bytes)
  /\ calls[3].op = "decrypt"
  /\ calls[3].key = KeyOf(1)
  /\ calls[3].ret = Err("Decryption")

(***************************************************************************)
(* C9: every Cruid that parse, from_bytes, encrypt or the conversion from  *)
(* a Uuid returns has hyphens at offsets 8, 13, 18, 23 and hex digits      *)
(* elsewhere, and no assertion or expect of the codec fires, in a debug    *)
(* build or a release build.                                               *)
(***************************************************************************)
C9_CruidsAreWellFormed ==
  /\ panic = ""
  /\ \A i \in 1..Len(calls) :
       ReturnsCruid(calls[i]) => WellFormed(CruidOf(calls[i]).bytes)

C9_Witness ==
  /\ debug_assertions
  /\ Len(calls) = 4
  /\ calls[1].op = "encrypt"
  /\ Follows(2, "to_bytes", "from_bytes")
  /\ calls[4].op = "as_str"
  /\ WellFormed(calls[4].ret)

(***************************************************************************)
(* C10: if decrypt under key k returns Ok(v) for a Cruid id, then id       *)
(* decodes to the same 16 bytes as encrypt(k, v); and under one key,       *)
(* different plaintexts encrypt to different Cruids.                       *)
(***************************************************************************)
C10_AuthenticIsEncrypted ==
  \A i \in 1..Len(calls) :
    /\ (calls[i].op = "decrypt" /\ calls[i].ret.ok) =>
         to_bytes(calls[i].arg).val
           = to_bytes(encrypt(EncryptionKey_new(calls[i].key), calls[i].ret.val, FALSE).val).val
    /\ (calls[i].op = "encrypt" /\ Len(calls) = 1) =>
         \A w \in Plaintexts \ { calls[i].arg } :
           ~ Cruid_eq(encrypt(EncryptionKey_new(calls[i].key), w, FALSE).val, calls[i].ret)

C10_Witness ==
  /\ Len(calls) = 3
  /\ calls[1].op = "encrypt"
  /\ calls[2].op = "parse"
  /\ calls[2].arg = Upper(calls[1].ret.bytes)
  /\ calls[2].arg # calls[1].ret.bytes
  /\ calls[3].op = "decrypt"
  /\ calls[3].key = calls[1].key
  /\ calls[3].ret = Ok(calls[1].arg)

=============================================================================
